---- MODULE Spec2Model ----
(***************************************************************************)
(* A model of src/osint_tool.py: the OSINTSocialVerifier class (probe,     *)
(* classifier, extractor, scorer, platform fan-out, variant generator,     *)
(* search orchestrator) and the main() driver that feeds it.               *)
(*                                                                         *)
(* Python str values are TLA+ strings (Len, SubSeq and \o act on them);    *)
(* their characters are those a TLA+ string can hold, U+0000 to U+00FF.    *)
(* Python float values are IEEE-754 binary64 numbers, kept exactly as an   *)
(* integer multiple of 2^-56 split in two limbs (hi * 2^28 + lo), with     *)
(* round-to-nearest-even after every addition.                             *)
(***************************************************************************)
EXTENDS Integers, Sequences, FiniteSets, TLC

VARIABLES
    report_data,   \* self.report_data (timestamp left out: time is not modelled)
    mainpc,        \* position of main(): "start" | "returned" | "searching" | "done",
                   \* or "library" when the class is used without main()
    pc,            \* position of comprehensive_search: "idle" | "main" | "variants" |
                   \* "variant", "raised" when an exception left the method called,
                   \* or "direct" in a search_all_platforms the caller called itself
    frame,         \* locals of comprehensive_search (of its last call)
    fanout,        \* locals of search_all_platforms
    inflight,      \* platforms whose HTTP request is issued and not yet answered
    env,           \* what is outside the program: the profiles a caller hands over,
                   \* the answers the network can give, and probe, what the try
                   \* block of check_username_availability makes of each of them
    call,          \* a function called on its own: its name and arguments
    ret,           \* <<>> before that call, <<value>> after it
    hist           \* history: profiles submitted, usernames searched, probes made

vars == <<report_data, mainpc, pc, frame, fanout, inflight, env, call, ret, hist>>

(***************************************************************************)
(* Bounds of the model.                                                    *)
(***************************************************************************)
\* number of registry platforms (in registry order) the fan-out model walks
NumPlatforms == 2
\* cap on len(report_data['found_accounts']): positive responses stop there
MaxFound == 2
\* number of calls a caller makes on one instance (where it is called again)
MaxCalls == 2
\* number of body fragments concatenated into a response body
MaxBodyParts == 2
\* largest total_accounts_found of a report _generate_recommendations is called on
MaxTotal == 12

(***************************************************************************)
(* Python str helpers.                                                     *)
(***************************************************************************)
Char(s, i) == SubSeq(s, i, i)

\* the characters str.lower() changes, and what it makes of each
UPPER == "ABCDEFGHIJKLMNOPQRSTUVWXYZÀÁÂÃÄÅÆÇÈÉÊËÌÍÎÏÐÑÒÓÔÕÖØÙÚÛÜÝÞ"
LOWER == "abcdefghijklmnopqrstuvwxyzàáâãäåæçèéêëìíîïðñòóôõöøùúûüýþ"

UpperToLower == [c \in {Char(UPPER, i) : i \in 1..Len(UPPER)} |->
                    Char(LOWER, CHOOSE i \in 1..Len(UPPER) : Char(UPPER, i) = c)]

\* str.lower() of one character
LowerChar(c) == IF c \in DOMAIN UpperToLower THEN UpperToLower[c] ELSE c

RECURSIVE Lower(_)
\* str.lower(), character by character (the string is halved to keep the
\* recursion shallow)
Lower(s) ==
    IF Len(s) = 0 THEN ""
    ELSE IF Len(s) = 1 THEN LowerChar(s)
    ELSE Lower(SubSeq(s, 1, Len(s) \div 2)) \o Lower(SubSeq(s, Len(s) \div 2 + 1, Len(s)))

\* pattern in content
Contains(pattern, content) ==
    \E i \in 1..(Len(content) - Len(pattern) + 1) :
        SubSeq(content, i, i + Len(pattern) - 1) = pattern

\* The characters str.isspace() holds for: str.strip() removes them and \s of a
\* str pattern matches them.  After the space: TAB, LF, CR, FF, then VT (U+000B),
\* FS, GS, RS, US (U+001C to U+001F), NEL (U+0085) and NBSP (U+00A0).
WHITESPACE ==
    {" ", "\t", "\n", "\r", "\f", "", "", "", "", "", "", " "}

RECURSIVE LStrip(_)
LStrip(s) == IF s # "" /\ Head(s) \in WHITESPACE THEN LStrip(Tail(s)) ELSE s

RECURSIVE RStrip(_)
RStrip(s) ==
    IF s # "" /\ Char(s, Len(s)) \in WHITESPACE
    THEN RStrip(SubSeq(s, 1, Len(s) - 1)) ELSE s

\* str.strip()
Strip(s) == RStrip(LStrip(s))

\* template.format(username) for a template holding one "{}"
Format(template, username) ==
    LET i == CHOOSE j \in 1..(Len(template) - 1) :
                 /\ SubSeq(template, j, j + 1) = "{}"
                 /\ ~Contains("{}", SubSeq(template, 1, j))
    IN  SubSeq(template, 1, i - 1) \o username \o SubSeq(template, i + 2, Len(template))

\* base_username.replace('_', new)
RECURSIVE Replace(_, _)
Replace(s, new) ==
    IF Len(s) = 0 THEN ""
    ELSE IF Len(s) = 1 THEN (IF s = "_" THEN new ELSE s)
    ELSE Replace(SubSeq(s, 1, Len(s) \div 2), new)
            \o Replace(SubSeq(s, Len(s) \div 2 + 1, Len(s)), new)

(***************************************************************************)
(* Python re: the regular expressions of the source as syntax trees, and   *)
(* re.search / re.match on them.  Ends(r, s, i, ic) is the set of          *)
(* positions where a match of r that starts at position i of s can end     *)
(* (ic: re.IGNORECASE; s is then the case-folded subject, and a literal is  *)
(* compared by its case-folded text).                                      *)
(***************************************************************************)
Lit(v) == [k |-> "lit", v |-> v, folded |-> Lower(v)]
Cls(c) == [k |-> "cls", c |-> c]
Cat(rs) == [k |-> "seq", rs |-> rs]
Star(r) == [k |-> "star", r |-> r]
Opt(r) == [k |-> "opt", r |-> r]
Plus(r) == Cat(<<r, Star(r)>>)

\* \d of a str pattern: the decimal digits (category Nd) up to U+00FF
DIGITS == {"0", "1", "2", "3", "4", "5", "6", "7", "8", "9"}

InClass(c, cls, ic) ==
    CASE cls = "digit"    -> c \in DIGITS
      [] cls = "space"    -> c \in WHITESPACE
      [] cls = "notlt"    -> c # "<"
      [] cls = "notquote" -> c # "\""
      [] cls = "KM"       -> IF ic THEN c \in {"k", "m"} ELSE c \in {"K", "M"}

RECURSIVE Ends(_, _, _, _), SeqEnds(_, _, _, _, _), StarEnds(_, _, _, _, _)
Ends(r, s, i, ic) ==
    CASE r.k = "lit" ->
            IF /\ i + Len(r.v) - 1 <= Len(s)
               /\ SubSeq(s, i, i + Len(r.v) - 1) = (IF ic THEN r.folded ELSE r.v)
            THEN {i + Len(r.v)} ELSE {}
      [] r.k = "cls" ->
            IF i <= Len(s) /\ InClass(Char(s, i), r.c, ic) THEN {i + 1} ELSE {}
      [] r.k = "seq"  -> SeqEnds(r.rs, 1, s, {i}, ic)
      [] r.k = "star" -> StarEnds(r.r, s, {i}, {i}, ic)
      [] r.k = "opt"  -> {i} \cup Ends(r.r, s, i, ic)

SeqEnds(rs, n, s, from, ic) ==
    IF n > Len(rs) \/ from = {} THEN from
    ELSE SeqEnds(rs, n + 1, s, UNION {Ends(rs[n], s, p, ic) : p \in from}, ic)

StarEnds(r, s, frontier, acc, ic) ==
    LET new == UNION {Ends(r, s, p, ic) : p \in frontier} \ acc
    IN  IF new = {} THEN acc ELSE StarEnds(r, s, new, acc \cup new, ic)

SetMax(S) == CHOOSE x \in S : \A y \in S : y <= x
SetMin(S) == CHOOSE x \in S : \A y \in S : x <= y

\* Where group 1 of the pattern pre (grp) post can lie when the match starts at i:
\* the pairs <<g, e>> with s[g..e-1] the group.
GroupSpans(p, s, i, ic) ==
    {ge \in UNION {{<<g, e>> : e \in Ends(p.grp, s, g, ic)} : g \in Ends(p.pre, s, i, ic)} :
        Ends(p.post, s, ge[2], ic) # {}}

\* re.search(pattern, s[, re.IGNORECASE]): <<>> for None, else <<match.group(1)>>.
\* The leftmost start wins; at that start every quantifier of these patterns is
\* greedy and backtracks from the longest, so the group is the longest that lets
\* the rest of the pattern match.  folded is s.lower() (used when ic).
ReSearch(p, s, folded, ic) ==
    LET subject == IF ic THEN folded ELSE s
        starts == {i \in 1..(Len(s) + 1) : GroupSpans(p, subject, i, ic) # {}}
    IN  IF starts = {} THEN <<>>
        ELSE LET spans == GroupSpans(p, subject, SetMin(starts), ic)
                 g == SetMax({ge[1] : ge \in spans})
                 e == SetMax({ge[2] : ge \in {x \in spans : x[1] = g}})
             IN  <<SubSeq(s, g, e - 1)>>

\* re.match(r'^...$', s): the whole string matches
ReFullMatch(r, s) == (Len(s) + 1) \in Ends(r, s, 1, FALSE)

Pattern(pre, grp, post) == [pre |-> pre, grp |-> grp, post |-> post]
Empty == Cat(<<>>)
Spaces == Star(Cls("space"))
Quoted == Plus(Cls("notquote"))
Number == Plus(Cls("digit"))

(***************************************************************************)
(* Python float (binary64) on the values the scorer produces.              *)
(***************************************************************************)
Limb == 2^28

Dbl(hi, lo) == [hi |-> hi, lo |-> lo]
D_0_0 == Dbl(0, 0)                       \* 0.0
D_0_1 == Dbl(26843545, 161061274)        \* 0.1
D_0_2 == Dbl(53687091, 53687092)         \* 0.2
D_0_3 == Dbl(80530636, 214748364)        \* 0.3
D_0_7 == Dbl(187904819, 53687088)        \* 0.7
D_1_0 == Dbl(268435456, 0)               \* 1.0

\* spacing of binary64 numbers around x, in units of 2^-56
Quantum(x) ==
    IF x.hi >= 2^28 THEN 16
    ELSE IF x.hi >= 2^27 THEN 8
    ELSE IF x.hi >= 2^26 THEN 4
    ELSE IF x.hi >= 2^25 THEN 2
    ELSE 1

\* round to nearest, ties to even
DRound(x) ==
    LET q    == Quantum(x)
        r    == x.lo % q
        down == x.lo - r
        up   == (2 * r > q) \/ (2 * r = q /\ (x.lo \div q) % 2 = 1)
        lo   == IF up THEN down + q ELSE down
    IN  IF lo = Limb THEN Dbl(x.hi + 1, 0) ELSE Dbl(x.hi, lo)

\* a + b
DAdd(a, b) ==
    LET lo == a.lo + b.lo
    IN  DRound(Dbl(a.hi + b.hi + (lo \div Limb), lo % Limb))

\* a < b, a <= b, a > b
DLess(a, b) == a.hi < b.hi \/ (a.hi = b.hi /\ a.lo < b.lo)
DLeq(a, b) == ~DLess(b, a)
DGreater(a, b) == DLess(b, a)

\* min(a, b)
DMin(a, b) == IF DLess(b, a) THEN b ELSE a

(***************************************************************************)
(* Platform registry: self.platforms, in dict (insertion) order.           *)
(***************************************************************************)
PlatformIds ==
    <<"twitter", "instagram", "facebook", "linkedin", "github", "pinterest",
      "tiktok", "behance", "dribbble", "medium", "youtube", "reddit",
      "telegram", "twitch", "snapchat">>

platforms ==
    [twitter   |-> "https://twitter.com/{}",
     instagram |-> "https://www.instagram.com/{}",
     facebook  |-> "https://www.facebook.com/{}",
     linkedin  |-> "https://www.linkedin.com/in/{}",
     github    |-> "https://github.com/{}",
     pinterest |-> "https://www.pinterest.com/{}",
     tiktok    |-> "https://www.tiktok.com/@{}",
     behance   |-> "https://www.behance.net/{}",
     dribbble  |-> "https://dribbble.com/{}",
     medium    |-> "https://medium.com/@{}",
     youtube   |-> "https://www.youtube.com/user/{}",
     reddit    |-> "https://www.reddit.com/user/{}",
     telegram  |-> "https://t.me/{}",
     twitch    |-> "https://www.twitch.tv/{}",
     snapchat  |-> "https://www.snapchat.com/add/{}"]

\* a response of the network to session.get: an exception or a status and a body
NetFail == [kind |-> "RequestException"]
\* an exception that is not a requests.RequestException
OtherError == [kind |-> "Exception"]
Response(status, text) == [kind |-> "response", status_code |-> status, text |-> text]

(***************************************************************************)
(* _analyze_response                                                       *)
(***************************************************************************)
not_found_patterns ==
    [twitter   |-> <<"this account doesn't exist", "account suspended", "profile not found">>,
     instagram |-> <<"page not found", "user not found", "sorry, this page isn't available">>,
     facebook  |-> <<"page not found", "content not found", "profile not available">>,
     linkedin  |-> <<"page not found", "member not found", "profile not found">>,
     github    |-> <<"not found", "404", "doesn't exist">>,
     pinterest |-> <<"page not found", "profile not found">>,
     tiktok    |-> <<"couldn't find this account", "no content found">>,
     behance   |-> <<"page not found", "profile not found">>,
     dribbble  |-> <<"page not found", "profile not found">>,
     medium    |-> <<"page not found", "profile not found">>,
     youtube   |-> <<"channel doesn't exist", "404", "user not found">>,
     reddit    |-> <<"page not found", "user not found">>,
     telegram  |-> <<"username not found", "user not found">>,
     twitch    |-> <<"page not found", "user not found">>,
     snapchat  |-> <<"page not found", "user not found">>]

\* the loop "for pattern in not_found_patterns[platform]" from its n-th pattern:
\* TRUE when a pattern is found in content (the loop returns False there)
RECURSIVE AnyPatternFrom(_, _, _)
AnyPatternFrom(patterns, n, content) ==
    IF n > Len(patterns) THEN FALSE
    ELSE IF Contains(patterns[n], content) THEN TRUE
    ELSE AnyPatternFrom(patterns, n + 1, content)

\* as _analyze_response, without ".lower()"
AnalyzeNoLower(response, platform) ==
    IF response.status_code = 200
    THEN IF platform \in DOMAIN not_found_patterns
         THEN ~AnyPatternFrom(not_found_patterns[platform], 1, response.text)
         ELSE TRUE
    ELSE FALSE

_analyze_response(response, platform) ==
    IF response.status_code = 200
    THEN LET content == Lower(response.text)
         IN  IF platform \in DOMAIN not_found_patterns
             THEN ~AnyPatternFrom(not_found_patterns[platform], 1, content)
             ELSE TRUE
    ELSE FALSE

(***************************************************************************)
(* _extract_profile_data                                                   *)
(***************************************************************************)
FIELDS == <<"name", "description", "followers", "location">>

patterns ==
    [name |-> <<
        Pattern(Lit("<title>"), Plus(Cls("notlt")), Lit("</title>")),
        Pattern(Cat(<<Lit("\"name\":"), Spaces, Lit("\"")>>), Quoted, Lit("\"")),
        Pattern(Lit("<meta property=\"og:title\" content=\""), Quoted, Lit("\""))>>,
     description |-> <<
        Pattern(Lit("<meta name=\"description\" content=\""), Quoted, Lit("\"")),
        Pattern(Lit("<meta property=\"og:description\" content=\""), Quoted, Lit("\"")),
        Pattern(Cat(<<Lit("\"description\":"), Spaces, Lit("\"")>>), Quoted, Lit("\""))>>,
     followers |-> <<
        Pattern(Empty, Cat(<<Number, Star(Cat(<<Lit(","), Number>>))>>),
                Cat(<<Spaces, Lit("followers")>>)),
        Pattern(Cat(<<Lit("\"followers\":"), Spaces>>), Number, Empty),
        Pattern(Empty, Cat(<<Number, Opt(Cat(<<Lit("."), Number>>)), Opt(Cls("KM"))>>),
                Cat(<<Spaces, Lit("followers")>>))>>,
     location |-> <<
        Pattern(Cat(<<Lit("\"location\":"), Spaces, Lit("\"")>>), Quoted, Lit("\"")),
        Pattern(Lit("<meta property=\"og:locale\" content=\""), Quoted, Lit("\""))>>]

job_pattern == Pattern(Cat(<<Lit("\"headline\":"), Spaces, Lit("\"")>>), Quoted, Lit("\""))
repo_pattern == Pattern(Cat(<<Lit("\"public_repos\":"), Spaces>>), Number, Empty)

\* "for pattern in regex_list: match = re.search(...); if match: ...; break"
RECURSIVE FirstMatch(_, _, _, _)
FirstMatch(regex_list, n, content, folded) ==
    IF n > Len(regex_list) THEN <<>>
    ELSE LET match == ReSearch(regex_list[n], content, folded, TRUE)
         IN  IF match # <<>> THEN match
             ELSE FirstMatch(regex_list, n + 1, content, folded)

\* a dict as a function from its keys; {} is the function of empty domain
EmptyDict == <<>>

\* d[key] = value
Put(d, key, value) == (key :> value) @@ d

\* "for field, regex_list in patterns.items():" from the n-th field on
RECURSIVE ExtractFields(_, _, _, _)
ExtractFields(n, content, folded, profile_data) ==
    IF n > Len(FIELDS) THEN profile_data
    ELSE LET match == FirstMatch(patterns[FIELDS[n]], 1, content, folded)
         IN  ExtractFields(n + 1, content, folded,
                           IF match # <<>> THEN Put(profile_data, FIELDS[n], match[1])
                           ELSE profile_data)

\* the fields only one platform has, added to the profile_data of the common ones
PlatformFields(platform, content, profile_data) ==
    IF platform = "linkedin"
    THEN LET job_match == ReSearch(job_pattern, content, content, FALSE)
         IN  IF job_match # <<>> THEN Put(profile_data, "job_title", job_match[1])
             ELSE profile_data
    ELSE IF platform = "github"
    THEN LET repo_match == ReSearch(repo_pattern, content, content, FALSE)
         IN  IF repo_match # <<>> THEN Put(profile_data, "public_repos", repo_match[1])
             ELSE profile_data
    ELSE profile_data

_extract_profile_data(response, platform) ==
    PlatformFields(platform, response.text,
                   ExtractFields(1, response.text, Lower(response.text), EmptyDict))

(***************************************************************************)
(* _calculate_confidence_score                                             *)
(***************************************************************************)
\* "if profile_data.get(key):" - the key is there and its value is not empty
Truthy(profile_data, key) == key \in DOMAIN profile_data /\ profile_data[key] # ""

platform_bonus == [linkedin |-> D_0_1, github |-> D_0_1, behance |-> D_0_1, dribbble |-> D_0_1]

\* as _calculate_confidence_score, with "score = 0.2" for "score += 0.2" at the description
ScoreDescriptionAssigns(profile_data, platform) ==
    LET s0 == DAdd(D_0_0, D_0_3)
        s1 == IF Truthy(profile_data, "name") THEN DAdd(s0, D_0_2) ELSE s0
        s2 == IF Truthy(profile_data, "description") THEN D_0_2 ELSE s1
        s3 == IF Truthy(profile_data, "followers") THEN DAdd(s2, D_0_1) ELSE s2
        s4 == IF Truthy(profile_data, "location") THEN DAdd(s3, D_0_1) ELSE s3
        s5 == IF platform \in DOMAIN platform_bonus
              THEN DAdd(s4, platform_bonus[platform]) ELSE s4
    IN  DMin(s5, D_1_0)

_calculate_confidence_score(profile_data, platform) ==
    LET s0 == DAdd(D_0_0, D_0_3)
        s1 == IF Truthy(profile_data, "name") THEN DAdd(s0, D_0_2) ELSE s0
        s2 == IF Truthy(profile_data, "description") THEN DAdd(s1, D_0_2) ELSE s1
        s3 == IF Truthy(profile_data, "followers") THEN DAdd(s2, D_0_1) ELSE s2
        s4 == IF Truthy(profile_data, "location") THEN DAdd(s3, D_0_1) ELSE s3
        s5 == IF platform \in DOMAIN platform_bonus
              THEN DAdd(s4, platform_bonus[platform]) ELSE s4
    IN  DMin(s5, D_1_0)

(***************************************************************************)
(* check_username_availability, given what session.get does                *)
(***************************************************************************)
SocialAccount(platform, username, url, exists, profile_data, confidence_score) ==
    [platform |-> platform, username |-> username, url |-> url, exists |-> exists,
     profile_data |-> profile_data, confidence_score |-> confidence_score]

Tried(exists, profile_data, confidence_score) ==
    [exists |-> exists, profile_data |-> profile_data, confidence_score |-> confidence_score]

\* "if exists:" taken: the profile data is extracted and scored
Scored(profile_data, platform) ==
    Tried(TRUE, profile_data, _calculate_confidence_score(profile_data, platform))

\* as TryRequest, without the except clause: the exception goes on to the caller
TryRequestRaises(platform, outcome) ==
    IF outcome.kind # "response" THEN outcome
    ELSE IF _analyze_response(outcome, platform)
    THEN Scored(_extract_profile_data(outcome, platform), platform)
    ELSE Tried(FALSE, EmptyDict, D_0_0)

\* as TryRequest, without "if exists:" before the extraction and the scoring
TryRequestScoresAll(platform, outcome) ==
    IF outcome.kind = "Exception" THEN outcome
    ELSE IF outcome.kind = "RequestException" THEN Tried(FALSE, EmptyDict, D_0_0)
    ELSE [Scored(_extract_profile_data(outcome, platform), platform)
            EXCEPT !.exists = _analyze_response(outcome, platform)]

\* The try block and its except clause: the exists, profile_data and
\* confidence_score the SocialAccount is built from; outcome is what
\* self.session.get does, a response, a requests.RequestException, or an
\* exception of another class, which the except clause does not catch: the
\* exception itself is then the result, and it leaves the method.
TryRequest(platform, outcome) ==
    IF outcome.kind = "Exception" THEN outcome
    ELSE IF outcome.kind = "RequestException" THEN Tried(FALSE, EmptyDict, D_0_0)
    ELSE IF _analyze_response(outcome, platform)
    THEN Scored(_extract_profile_data(outcome, platform), platform)
    ELSE Tried(FALSE, EmptyDict, D_0_0)

\* "return SocialAccount(...)", of either branch
Returned(username, platform, tried) ==
    SocialAccount(platform, username, Format(platforms[platform], username),
                  tried.exists, tried.profile_data, tried.confidence_score)

\* TRUE when the try block ended in an exception that was not caught
Raises(tried) == "exists" \notin DOMAIN tried

\* what leaves the method: the SocialAccount returned, or the exception
Leaves(username, platform, tried) ==
    IF Raises(tried) THEN tried ELSE Returned(username, platform, tried)

check_username_availability(username, platform, outcome) ==
    Leaves(username, platform, TryRequest(platform, outcome))

(***************************************************************************)
(* search_email_presence, search_phone_presence                            *)
(***************************************************************************)
search_email_presence(email) ==
    [email |-> email, found_in_breaches |-> FALSE, public_presence |-> <<>>,
     verification_status |-> "requires_manual_check"]

Digit3 == Cat(<<Cls("digit"), Cls("digit"), Cls("digit")>>)
\* r'^\+\d{1,3}\s?\d{3}\s?\d{3}\s?\d{3}$' ($ also matches before a final newline)
phone_format ==
    Cat(<<Lit("+"), Cls("digit"), Opt(Cat(<<Cls("digit"), Opt(Cls("digit"))>>)),
          Opt(Cls("space")), Digit3, Opt(Cls("space")), Digit3, Opt(Cls("space")), Digit3,
          Opt(Lit("\n"))>>)

search_phone_presence(phone) ==
    [phone |-> phone, whatsapp_business |-> FALSE, telegram_found |-> FALSE,
     public_listings |-> <<>>, format_valid |-> ReFullMatch(phone_format, phone)]

(***************************************************************************)
(* generate_username_variants                                              *)
(***************************************************************************)
\* the list built before list(set(variants))
variants_list(base_username) ==
    <<base_username,
      base_username \o "1",
      base_username \o "2",
      base_username \o "_",
      base_username \o ".",
      base_username \o "-",
      base_username \o "123",
      Replace(base_username, ""),
      Replace(base_username, "."),
      Replace(base_username, "-")>>

\* The elements of list(set(variants)).  The order of that list is the iteration
\* order of a set of str, which the hashes of the strings decide (the hash seed
\* of the process): any permutation of the elements.
generate_username_variants(base_username) ==
    LET variants == variants_list(base_username)
    IN  {variants[i] : i \in 1..Len(variants)}

\* The elements that can be the next one of list(set(variants)) when those in
\* seen came before it: with the hash seed unknown, every element left.  Each
\* call draws its order anew, also for a username a call before it searched:
\* what one process repeats is among the orders drawn.
NextInSetOrder(base_username, seen) ==
    generate_username_variants(base_username) \ seen

(***************************************************************************)
(* _generate_recommendations                                               *)
(***************************************************************************)
REC_AUDIT == "Alto número de cuentas encontradas - considerar auditar perfiles no utilizados"
REC_2FA == "Implementar autenticación de dos factores en todas las cuentas"
REC_FIXED ==
    <<"Verificar configuraciones de privacidad en todas las plataformas",
      "Usar nombres de usuario únicos para diferentes propósitos",
      "Monitorear regularmente la presencia en línea",
      "Considerar el uso de un gestor de contraseñas">>

\* as _generate_recommendations, with ">= 5" for "> 5"
RecommendFromFive(rd) ==
    LET total_accounts == rd.verification_summary[1].total_accounts_found
        r1 == IF total_accounts > 10 THEN <<REC_AUDIT>> ELSE <<>>
        r2 == IF total_accounts >= 5 THEN Append(r1, REC_2FA) ELSE r1
    IN  [rd EXCEPT !.recommendations = r2 \o REC_FIXED]

\* the new value of self.report_data
_generate_recommendations(rd) ==
    LET total_accounts == rd.verification_summary[1].total_accounts_found
        r1 == IF total_accounts > 10 THEN <<REC_AUDIT>> ELSE <<>>
        r2 == IF total_accounts > 5 THEN Append(r1, REC_2FA) ELSE r1
    IN  [rd EXCEPT !.recommendations = r2 \o REC_FIXED]

(***************************************************************************)
(* The verifier object and the calls on it.                                *)
(***************************************************************************)
PersonProfile(name, email, phone, location, profession, common_username, website) ==
    [name |-> name, email |-> email, phone |-> phone, location |-> location,
     profession |-> profession, common_username |-> common_username, website |-> website]

\* use_example_profile()
use_example_profile ==
    PersonProfile("María Elena Rodríguez", "maria.rodriguez.design@gmail.com",
                  "+34 600 123 456", "Barcelona, España", "Diseñadora Gráfica",
                  "mariaelena_designs", "www.mariaelena-portfolio.com")

\* the platforms the fan-out walks, in registry order
Registry == SubSeq(PlatformIds, 1, NumPlatforms)

\* None is <<>> and a value v is <<v>> where the source holds None or {} at first
NewReport ==
    [target_profile |-> <<>>, found_accounts |-> <<>>,
     verification_summary |-> <<>>, recommendations |-> <<>>]

NoProfile == PersonProfile("", "", "", "", "", "", "")
\* variants: the elements of variants[:5] the loop has read (what can come next
\* depends on them only, not on the order they came in)
NoFrame == [profile |-> NoProfile, main_results |-> <<>>, variants |-> {},
            variant_results |-> <<>>]
NoFanout == [username |-> "", next |-> 0, results |-> <<>>]
\* submitted: the profile of the last search asked for; calls: how many calls
\* the caller made; last: the method it called last; methods: the methods it
\* called; searched: how many times
\* the running comprehensive_search called search_all_platforms with each
\* username; fan: the probes of the running fan-out, with the accounts they
\* returned; failed: one of them ended in a RequestException; positive: the
\* accounts that came back with exists true, ever; raised: the class of the
\* exception that left the method called last, if one did
NewHist == [submitted |-> <<>>, calls |-> 0, last |-> "", methods |-> {},
            searched |-> <<>>, fan |-> <<>>,
            failed |-> FALSE, positive |-> <<>>, raised |-> <<>>]

\* one more call of search_all_platforms with username
Searched(searched, username) ==
    (username :> (IF username \in DOMAIN searched THEN searched[username] + 1 ELSE 1))
        @@ searched

\* no method of the instance is running and none was called
NotCalled ==
    /\ mainpc = "start"
    /\ pc = "idle"
    /\ frame = NoFrame
    /\ fanout = NoFanout
    /\ inflight = {}
    /\ hist = NewHist

\* OSINTSocialVerifier.__init__, before any call
Constructed ==
    /\ report_data = NewReport
    /\ NotCalled

\* set_target_profile
set_target_profile(rd, profile) == [rd EXCEPT !.target_profile = <<profile>>]

\* the dict appended to report_data['found_accounts']
FoundEntry(account) ==
    [platform |-> account.platform, username |-> account.username, url |-> account.url,
     confidence_score |-> account.confidence_score, profile_data |-> account.profile_data]

(***************************************************************************)
(* Responses the network gives in the state machine.                       *)
(***************************************************************************)
NamedBody == "<title>Ana</title> \"description\": \"Design\""
RichBody == "<title>Ana</title> \"description\": \"Design\" 1,204 Followers"
AllOutcomes ==
    {NetFail, OtherError, Response(404, ""), Response(200, NamedBody), Response(200, RichBody)}
NegativeOutcomes == {NetFail, Response(404, "")}
RepeatOutcomes == {OtherError, Response(404, ""), Response(200, RichBody)}

(***************************************************************************)
(* get_user_input and main                                                 *)
(***************************************************************************)
\* get_user_input() on the lines typed at its prompts: <<>> for None
get_user_input(name_in, email_in, phone_in, location_in, profession_in, user_in, website_in) ==
    LET name == Strip(name_in)
        common_username == Strip(user_in)
    IN  IF name = "" THEN <<>>
        ELSE IF common_username = "" THEN <<>>
        ELSE <<PersonProfile(name, Strip(email_in), Strip(phone_in), Strip(location_in),
                             Strip(profession_in), common_username, Strip(website_in))>>

\* what is typed at the prompts of main() and get_user_input()
ChoiceInputs == {"1", " 2", "3", "x"}
\* the same without the example profile
ManualChoiceInputs == {"1", "3", "x"}
NameInputs == {"", "Ana "}
UserInputs == {" ", "ab"}
ConfirmInputs == {"S", "n"}
\* profiles a caller of the class hands over: complete, without a name, without
\* a username; a username whose ten variants differ, and one of which three are
\* the base
ApiProfiles ==
    {PersonProfile("Ana", "", "", "", "", "ab", ""),
     PersonProfile("Ana", "", "", "", "", "a_b", ""),
     PersonProfile("", "", "", "", "", "ab", ""),
     PersonProfile("Ana", "", "", "", "", "", "")}
\* one complete profile
OneProfile == {PersonProfile("Ana", "", "", "", "", "ab", "")}
\* two profiles of different usernames
TwoProfiles ==
    {PersonProfile("Ana", "", "", "", "", "ab", ""),
     PersonProfile("Ana", "", "", "", "", "", "")}

(***************************************************************************)
(* comprehensive_search and search_all_platforms, step by step.            *)
(***************************************************************************)
\* comprehensive_search up to the first request of its main search_all_platforms
BeginSearch(profile) ==
    /\ report_data' = set_target_profile(report_data, profile)
    /\ frame' = [NoFrame EXCEPT !.profile = profile]
    /\ fanout' = [username |-> profile.common_username, next |-> 1, results |-> <<>>]
    /\ pc' = "main"
    /\ hist' = [hist EXCEPT !.submitted = <<profile>>,
                            !.calls = @ + 1,
                            !.last = "comprehensive_search",
                            !.methods = @ \cup {"comprehensive_search"},
                            !.searched = Searched(<<>>, profile.common_username),
                            !.fan = <<>>, !.failed = FALSE, !.raised = <<>>]
    /\ UNCHANGED <<inflight, env, call, ret>>

\* main(): the menu, get_user_input, the confirmation, and the call of
\* comprehensive_search (whose steps follow) or the return without it
Main ==
    /\ mainpc = "start"
    /\ pc = "idle"
    /\ call.fn = "none"
    /\ \E choice_in \in env.choices, name_in \in NameInputs, user_in \in UserInputs,
          confirm_in \in ConfirmInputs :
          LET choice == Strip(choice_in)
              profile == IF choice = "1"
                         THEN get_user_input(name_in, "", "", "", "", user_in, "")
                         ELSE IF choice = "2" THEN <<use_example_profile>>
                         ELSE <<>>
              confirm == Lower(Strip(confirm_in))
          IN  IF profile = <<>> \/ confirm \notin {"s", "si", "y", "yes"}
              THEN /\ mainpc' = "returned"
                   /\ hist' = [hist EXCEPT !.submitted =
                                  IF choice = "1" /\ profile = <<>>
                                  THEN <<PersonProfile(Strip(name_in), "", "", "", "",
                                                       Strip(user_in), "")>>
                                  ELSE <<>>]
                   /\ UNCHANGED <<report_data, pc, frame, fanout, inflight, env, call, ret>>
              ELSE /\ mainpc' = "searching"
                   /\ BeginSearch(profile[1])

\* the instance is in the hands of a caller that can make one more call: no
\* method is running (the last one returned, or raised and the caller caught it)
CallerCanCall ==
    /\ mainpc \in {"start", "library"}
    /\ pc \in {"idle", "raised"}
    /\ call.fn = "none"
    /\ hist.calls < env.max_calls

\* a caller of the class calls comprehensive_search(profile) on the instance
ApiSearch ==
    /\ CallerCanCall
    /\ \E profile \in env.profiles :
          /\ mainpc' = "library"
          /\ BeginSearch(profile)

\* a caller of the class calls set_target_profile(profile) itself
ApiSetTarget ==
    /\ CallerCanCall
    /\ \E profile \in env.profiles :
          report_data' = set_target_profile(report_data, profile)
    /\ mainpc' = "library"
    /\ pc' = "idle"
    /\ hist' = [hist EXCEPT !.calls = @ + 1, !.last = "set_target_profile",
                            !.methods = @ \cup {"set_target_profile"},
                            !.searched = <<>>, !.fan = <<>>, !.failed = FALSE,
                            !.raised = <<>>]
    /\ UNCHANGED <<frame, fanout, inflight, env, call, ret>>

\* a caller of the class calls search_all_platforms(username) itself, up to the
\* first request
ApiSearchAllPlatforms ==
    /\ CallerCanCall
    /\ \E profile \in env.profiles :
          fanout' = [username |-> profile.common_username, next |-> 1, results |-> <<>>]
    /\ mainpc' = "library"
    /\ pc' = "direct"
    /\ hist' = [hist EXCEPT !.calls = @ + 1, !.last = "search_all_platforms",
                            !.methods = @ \cup {"search_all_platforms"},
                            !.searched = <<>>, !.fan = <<>>, !.failed = FALSE,
                            !.raised = <<>>]
    /\ UNCHANGED <<report_data, frame, inflight, env, call, ret>>

\* search_all_platforms: the loop reaches a platform and session.get sends its request
StartProbe ==
    /\ pc \in {"main", "variant", "direct"}
    /\ inflight = {}
    /\ fanout.next <= Len(Registry)
    /\ inflight' = {Registry[fanout.next]}
    /\ UNCHANGED <<report_data, mainpc, pc, frame, fanout, env, call, ret, hist>>

\* as LoopBody, without "if account.exists:"
LoopBodyAppendsAll(rd, fo, account) ==
    [rd |-> [rd EXCEPT !.found_accounts = Append(@, FoundEntry(account))],
     fo |-> [fo EXCEPT !.results = Append(@, account), !.next = @ + 1]]

\* the rest of one iteration of "for platform in self.platforms.keys()", given the
\* account check_username_availability returned
LoopBody(rd, fo, account) ==
    IF account.exists
    THEN [rd |-> [rd EXCEPT !.found_accounts = Append(@, FoundEntry(account))],
          fo |-> [fo EXCEPT !.results = Append(@, account), !.next = @ + 1]]
    ELSE [rd |-> rd, fo |-> [fo EXCEPT !.next = @ + 1]]

\* the request is answered (or fails) and the iteration completes
FinishProbe ==
    /\ pc \in {"main", "variant", "direct"}
    /\ \E platform \in inflight, outcome \in env.outcomes :
          LET tried == env.probe[platform, outcome]
          IN  IF Raises(tried)
              THEN \* an exception leaves search_all_platforms and its caller
                   /\ pc' = "raised"
                   /\ inflight' = {}
                   /\ fanout' = NoFanout
                   /\ hist' = [hist EXCEPT !.failed = @ \/ outcome.kind = "RequestException",
                                           !.raised = <<outcome.kind>>]
                   /\ UNCHANGED <<report_data, mainpc, frame, env, call, ret>>
              ELSE LET account == Returned(fanout.username, platform, tried)
                       after == LoopBody(report_data, fanout, account)
                   IN  /\ account.exists => Len(report_data.found_accounts) < env.max_found
                       /\ report_data' = after.rd
                       /\ fanout' = after.fo
                       /\ inflight' = {}
                       /\ hist' = [hist EXCEPT
                              !.fan = Append(@, [platform |-> platform, account |-> account]),
                              !.failed = @ \/ outcome.kind = "RequestException",
                              !.positive = IF account.exists THEN Append(@, account) ELSE @]
                       /\ UNCHANGED <<mainpc, pc, frame, env, call, ret>>

\* "main_results = self.search_all_platforms(profile.common_username)" returns;
\* "variants = self.generate_username_variants(...)"
ReturnMainSearch ==
    /\ pc = "main"
    /\ inflight = {}
    /\ fanout.next > Len(Registry)
    /\ frame' = [frame EXCEPT !.main_results = fanout.results]
    /\ fanout' = NoFanout
    /\ pc' = "variants"
    /\ hist' = [hist EXCEPT !.fan = <<>>, !.failed = FALSE]
    /\ UNCHANGED <<report_data, mainpc, inflight, env, call, ret>>

\* "variant_results.extend(self.search_all_platforms(variant))" returns
ReturnVariantSearch ==
    /\ pc = "variant"
    /\ inflight = {}
    /\ fanout.next > Len(Registry)
    /\ frame' = [frame EXCEPT !.variant_results = @ \o fanout.results]
    /\ fanout' = NoFanout
    /\ pc' = "variants"
    /\ hist' = [hist EXCEPT !.fan = <<>>, !.failed = FALSE]
    /\ UNCHANGED <<report_data, mainpc, inflight, env, call, ret>>

\* the search_all_platforms the caller called returns its results to the caller
ReturnDirectSearch ==
    /\ pc = "direct"
    /\ inflight = {}
    /\ fanout.next > Len(Registry)
    /\ fanout' = NoFanout
    /\ pc' = "idle"
    /\ hist' = [hist EXCEPT !.fan = <<>>, !.failed = FALSE]
    /\ UNCHANGED <<report_data, mainpc, frame, inflight, env, call, ret>>

\* how many elements "for variant in variants[:5]" visits
SliceLen(base_username) ==
    IF Cardinality(generate_username_variants(base_username)) < 5
    THEN Cardinality(generate_username_variants(base_username)) ELSE 5

\* as VariantIsProbed, without the comparison
VariantLoopProbesBase(variant, base_username) == TRUE

\* "if variant != profile.common_username"
VariantIsProbed(variant, base_username) == variant # base_username

\* one iteration of "for variant in variants[:5]": frame.variants holds the
\* elements of list(set(variants)) the loop has read so far
VariantLoop ==
    /\ pc = "variants"
    /\ Cardinality(frame.variants) < SliceLen(frame.profile.common_username)
    /\ \E variant \in NextInSetOrder(frame.profile.common_username, frame.variants) :
          /\ frame' = [frame EXCEPT !.variants = @ \cup {variant}]
          /\ IF VariantIsProbed(variant, frame.profile.common_username)
             THEN /\ pc' = "variant"
                  /\ fanout' = [username |-> variant, next |-> 1, results |-> <<>>]
                  /\ hist' = [hist EXCEPT !.searched = Searched(@, variant)]
             ELSE UNCHANGED <<pc, fanout, hist>>
    /\ UNCHANGED <<report_data, mainpc, inflight, env, call, ret>>

\* as verification_summary, with ">= 0.7" for "> 0.7"
SummaryCountsFromThreshold(rd, fr) ==
    [main_username_results |-> Len(fr.main_results),
     variant_results |-> Len(fr.variant_results),
     email_verification |-> search_email_presence(fr.profile.email),
     phone_verification |-> search_phone_presence(fr.profile.phone),
     total_accounts_found |-> Len(fr.main_results) + Len(fr.variant_results),
     high_confidence_accounts |->
        Cardinality({i \in 1..Len(fr.main_results \o fr.variant_results) :
            DLeq(D_0_7, (fr.main_results \o fr.variant_results)[i].confidence_score)})]

\* report_data['verification_summary'] as comprehensive_search sets it
verification_summary(rd, fr) ==
    [main_username_results |-> Len(fr.main_results),
     variant_results |-> Len(fr.variant_results),
     email_verification |-> search_email_presence(fr.profile.email),
     phone_verification |-> search_phone_presence(fr.profile.phone),
     total_accounts_found |-> Len(fr.main_results) + Len(fr.variant_results),
     high_confidence_accounts |->
        Cardinality({i \in 1..Len(fr.main_results \o fr.variant_results) :
            DGreater((fr.main_results \o fr.variant_results)[i].confidence_score, D_0_7)})]

\* the end of comprehensive_search: the stubs, the summary, the recommendations,
\* "return self.report_data"
FinishSearch ==
    /\ pc = "variants"
    /\ Cardinality(frame.variants) = SliceLen(frame.profile.common_username)
    /\ report_data' = _generate_recommendations(
            [report_data EXCEPT !.verification_summary = <<verification_summary(report_data, frame)>>])
    /\ pc' = "idle"
    /\ mainpc' = IF mainpc = "searching" THEN "done" ELSE mainpc
    /\ UNCHANGED <<frame, fanout, inflight, env, call, ret, hist>>

NoCall == [fn |-> "none"]

\* What is outside the program: what is typed at the menu of main(), the
\* profiles a caller of the class hands to its methods, what the requests can be
\* answered with, and how much of it the
\* scenario takes (positive answers, calls).  probe holds what the try block
\* makes of each answer, computed once.
Environment(choices, profiles, outcomes, max_found, max_calls) ==
    [choices |-> choices, profiles |-> profiles, outcomes |-> outcomes,
     max_found |-> max_found, max_calls |-> max_calls,
     probe |-> [platform \in {Registry[i] : i \in 1..Len(Registry)}, outcome \in outcomes |->
                    TryRequest(platform, outcome)]]

\* no request is made
NoEnvironment ==
    [choices |-> {}, profiles |-> {}, outcomes |-> {}, max_found |-> 0, max_calls |-> 0,
     probe |-> <<>>]

Init ==
    /\ Constructed
    /\ env = Environment(ManualChoiceInputs, OneProfile, AllOutcomes, MaxFound, 1)
    /\ call = NoCall
    /\ ret = <<>>

Next ==
    \/ Main
    \/ ApiSearch
    \/ ApiSetTarget
    \/ ApiSearchAllPlatforms
    \/ StartProbe
    \/ FinishProbe
    \/ ReturnMainSearch
    \/ ReturnVariantSearch
    \/ ReturnDirectSearch
    \/ VariantLoop
    \/ FinishSearch

Spec == Init /\ [][Next]_vars

\* a network that answers no probe positively
InitVariants ==
    /\ Constructed
    /\ env = Environment(ChoiceInputs, ApiProfiles, NegativeOutcomes, 0, 1)
    /\ call = NoCall
    /\ ret = <<>>

SpecVariants == InitVariants /\ [][Next]_vars

\* an instance called again and again, with at most one account found
InitRepeat ==
    /\ Constructed
    /\ env = Environment(ManualChoiceInputs, TwoProfiles, RepeatOutcomes, 1, MaxCalls)
    /\ call = NoCall
    /\ ret = <<>>

SpecRepeat == InitRepeat /\ [][Next]_vars

(***************************************************************************)
(* The functions on their own: call holds a call with its arguments, ret   *)
(* what it returned.                                                       *)
(***************************************************************************)
StatusCodes == {200, 404, 500}
BodyParts ==
    {"<title>Ana</title>", "Page ", "Not Found", "This account doesn't exist", "User ", "404"}

\* the bodies made of at most n parts
RECURSIVE Bodies(_)
Bodies(n) ==
    IF n = 0 THEN {""}
    ELSE Bodies(n - 1) \cup {body \o part : body \in Bodies(n - 1), part \in BodyParts}

\* every platform of the registry, and one that not_found_patterns does not list
AnalyzedPlatforms == {PlatformIds[i] : i \in 1..Len(PlatformIds)} \cup {"mastodon"}

OptionalFields == {"name", "description", "followers", "location"}
ScoredDicts == UNION {[keys -> {"", "x"}] : keys \in SUBSET (OptionalFields \cup {"job_title"})}

ProbedBodies ==
    {"", NamedBody, RichBody, "<title>Page not found</title>",
     "\"name\": \"Ana\" \"headline\": \"Designer\" \"public_repos\": 12 \"location\": \"Vigo\""}
ProbedOutcomes ==
    {NetFail, OtherError} \cup {Response(st, body) : st \in StatusCodes, body \in ProbedBodies}

AnalyzeCalls ==
    {[fn |-> "_analyze_response", response |-> Response(st, body), platform |-> platform] :
        st \in StatusCodes, body \in Bodies(MaxBodyParts), platform \in AnalyzedPlatforms}
ScoreCalls ==
    {[fn |-> "_calculate_confidence_score", profile_data |-> profile_data, platform |-> platform] :
        profile_data \in ScoredDicts, platform \in AnalyzedPlatforms}
\* _generate_recommendations takes self only
RecommendCall == [fn |-> "_generate_recommendations"]

\* self.report_data where comprehensive_search calls _generate_recommendations
\* (after the summary is set): the search of a_b found the first total
\* platforms of the registry and nothing for the variants
SearchedReport(total) ==
    LET profile == PersonProfile("Ana", "", "", "", "", "a_b", "")
        main_results == [i \in 1..total |->
            check_username_availability("a_b", PlatformIds[i], Response(200, NamedBody))]
        fr == [NoFrame EXCEPT !.profile = profile, !.main_results = main_results]
        rd == [set_target_profile(NewReport, profile) EXCEPT
                  !.found_accounts = [i \in 1..total |-> FoundEntry(main_results[i])]]
    IN  [rd EXCEPT !.verification_summary = <<verification_summary(rd, fr)>>]

\* the reports _generate_recommendations is called on: as comprehensive_search
\* calls it, and on an instance that has searched nothing (the summary is {})
RecommendReports == {NewReport} \cup {SearchedReport(total) : total \in 0..MaxTotal}
ProbeCalls ==
    {[fn |-> "check_username_availability", username |-> username, platform |-> platform,
      outcome |-> outcome] :
        username \in {"a_b", "ana.b"}, platform \in {PlatformIds[i] : i \in 1..Len(PlatformIds)},
        outcome \in ProbedOutcomes}

CallAnalyze ==
    /\ call.fn = "_analyze_response"
    /\ ret = <<>>
    /\ ret' = <<_analyze_response(call.response, call.platform)>>
    /\ UNCHANGED <<report_data, mainpc, pc, frame, fanout, inflight, env, call, hist>>

CallScore ==
    /\ call.fn = "_calculate_confidence_score"
    /\ ret = <<>>
    /\ ret' = <<_calculate_confidence_score(call.profile_data, call.platform)>>
    /\ UNCHANGED <<report_data, mainpc, pc, frame, fanout, inflight, env, call, hist>>

\* what a method without a return statement returns
None == [kind |-> "None"]
\* "self.report_data['verification_summary']['total_accounts_found']" when the
\* summary is the {} of __init__
KeyError == [kind |-> "KeyError"]

\* self._generate_recommendations(): it assigns report_data['recommendations']
\* and returns None, or raises KeyError before it assigns anything
CallRecommend ==
    /\ call.fn = "_generate_recommendations"
    /\ ret = <<>>
    /\ IF report_data.verification_summary = <<>>
       THEN /\ ret' = <<KeyError>>
            /\ UNCHANGED report_data
       ELSE /\ ret' = <<None>>
            /\ report_data' = _generate_recommendations(report_data)
    /\ UNCHANGED <<mainpc, pc, frame, fanout, inflight, env, call, hist>>

CallProbe ==
    /\ call.fn = "check_username_availability"
    /\ ret = <<>>
    /\ ret' = <<check_username_availability(call.username, call.platform, call.outcome)>>
    /\ UNCHANGED <<report_data, mainpc, pc, frame, fanout, inflight, env, call, hist>>

InitCalls ==
    /\ NotCalled
    /\ env = NoEnvironment
    /\ \/ call \in AnalyzeCalls /\ report_data = NewReport
       \/ call \in ScoreCalls /\ report_data = NewReport
       \/ call = RecommendCall /\ report_data \in RecommendReports
       \/ call \in ProbeCalls /\ report_data = NewReport
    /\ ret = <<>>

NextCalls ==
    \/ CallAnalyze
    \/ CallScore
    \/ CallRecommend
    \/ CallProbe

SpecCalls == InitCalls /\ [][NextCalls]_vars

(***************************************************************************)
(* Properties.                                                             *)
(***************************************************************************)
HasReturned(fn) == call.fn = fn /\ ret # <<>>

\* the unit of least precision is of no concern here: a double is in [a, b]
InRange(x, a, b) == DLeq(a, x) /\ DLeq(x, b)

\* C1: whatever the platform, the username and the outcome of the request (any
\* status code, any body, or a network failure), check_username_availability
\* returns a result whose confidence_score lies in [0, 1]; when exists is false
\* the confidence_score is exactly 0.0 and profile_data is empty.  (An exception
\* that is no network failure is none of these outcomes.)
C1_ProbeResult ==
    (HasReturned("check_username_availability") /\ call.outcome.kind # "Exception") =>
        /\ ~Raises(ret[1])
        /\ InRange(ret[1].confidence_score, D_0_0, D_1_0)
        /\ ~ret[1].exists =>
              /\ ret[1].confidence_score = D_0_0
              /\ DOMAIN ret[1].profile_data = {}

\* a 200 response whose body carries data and a negative phrase came back negative
C1_Witness ==
    /\ HasReturned("check_username_availability")
    /\ call.outcome.kind = "response"
    /\ call.outcome.status_code = 200
    /\ call.outcome.text = "<title>Page not found</title>"
    /\ ~ret[1].exists

Merged == frame.main_results \o frame.variant_results
\* comprehensive_search has returned and no method was called since
SearchReturned == pc = "idle" /\ hist.last = "comprehensive_search"

\* C2: when comprehensive_search has returned, total_accounts_found is
\* len(main_results) + len(variant_results), and high_confidence_accounts is the
\* number of results among them whose confidence_score is strictly above 0.7 (so
\* it is at most total_accounts_found).
C2_SummaryCounts ==
    SearchReturned =>
        LET summary == report_data.verification_summary[1]
        IN  /\ summary.total_accounts_found
                    = Len(frame.main_results) + Len(frame.variant_results)
            /\ summary.high_confidence_accounts
                    = Len(SelectSeq(Merged, LAMBDA r : DLess(D_0_7, r.confidence_score)))
            /\ summary.high_confidence_accounts <= summary.total_accounts_found

\* two accounts were found, one scored exactly 0.7 and one above it
C2_Witness ==
    /\ SearchReturned
    /\ report_data.verification_summary[1].total_accounts_found = 2
    /\ report_data.verification_summary[1].high_confidence_accounts = 1
    /\ \E i \in 1..Len(Merged) : Merged[i].confidence_score = D_0_7

InFanout == pc \in {"main", "variant", "direct"}
\* the probes of the running fan-out that came back with exists true
FanPositives == SelectSeq(hist.fan, LAMBDA probe : probe.account.exists)

\* C3: in every reachable state, whatever calls were made before, the entries of
\* report_data['found_accounts'] are exactly those made from the probes that
\* came back with exists true, in their order, and so are the elements of the
\* list search_all_platforms builds and returns; a probe with exists false adds
\* nothing.
C3_FoundOnlyWhenExists ==
    /\ Len(report_data.found_accounts) = Len(hist.positive)
    /\ \A i \in 1..Len(hist.positive) :
          /\ hist.positive[i].exists
          /\ report_data.found_accounts[i] = FoundEntry(hist.positive[i])
    /\ InFanout =>
          /\ Len(fanout.results) = Len(FanPositives)
          /\ \A i \in 1..Len(FanPositives) : fanout.results[i] = FanPositives[i].account
    /\ \A i \in 1..Len(Merged) : Merged[i].exists

\* a later search on an instance that holds an account already: its probes came
\* back negative and the list did not grow
C3_Witness ==
    /\ hist.calls = 2
    /\ InFanout
    /\ Len(hist.fan) = Len(Registry)
    /\ \A i \in 1..Len(hist.fan) : ~hist.fan[i].account.exists
    /\ Len(report_data.found_accounts) = 1

\* C4: for every total_accounts_found the summary holds, the call returns
\* nothing and leaves in report_data['recommendations'] k conditional items
\* followed by exactly the four fixed ones, with k = 0 up to a total of 5, k = 1
\* (the two-factor item) from 6 to 10, and k = 2 (the two-factor and the audit
\* items) above 10; so there are at least four, and no conditional item follows
\* a fixed one.
C4_Recommendations ==
    (HasReturned("_generate_recommendations") /\ report_data.verification_summary # <<>>) =>
        LET total == report_data.verification_summary[1].total_accounts_found
            recommendations == report_data.recommendations
            k == IF total <= 5 THEN 0 ELSE IF total <= 10 THEN 1 ELSE 2
        IN  /\ ret[1] = None
            /\ Len(recommendations) = k + 4
            /\ Len(recommendations) >= 4
            /\ \A i \in 1..4 : recommendations[k + i] = REC_FIXED[i]
            /\ k = 1 => recommendations[1] = REC_2FA
            /\ k = 2 => {recommendations[1], recommendations[2]} = {REC_2FA, REC_AUDIT}

\* a total above 10: both conditional items, then the fixed four
C4_Witness ==
    /\ HasReturned("_generate_recommendations")
    /\ ret[1] = None
    /\ report_data.verification_summary # <<>>
    /\ report_data.verification_summary[1].total_accounts_found = 11
    /\ Len(report_data.recommendations) = 6

\* the negative phrases configured for a platform (none when it has no list)
Phrases(platform) ==
    IF platform \in DOMAIN not_found_patterns THEN not_found_patterns[platform] ELSE <<>>

\* C5: for every status code, body and platform, _analyze_response returns true
\* exactly when the status code is 200 and none of the platform's negative
\* phrases is a substring of the lower-cased body; a status other than 200 gives
\* false whatever the body, and a platform without a phrase list gives true on
\* every 200 response.
C5_AnalyzeResponse ==
    HasReturned("_analyze_response") =>
        LET response == call.response
            phrases == Phrases(call.platform)
        IN  /\ ret[1] = (/\ response.status_code = 200
                         /\ \A i \in 1..Len(phrases) :
                               ~Contains(phrases[i], Lower(response.text)))
            /\ response.status_code # 200 => ~ret[1]
            /\ (response.status_code = 200 /\ call.platform \notin DOMAIN not_found_patterns)
                    => ret[1]

\* a 200 response came back false for a phrase the body holds in other letter case
C5_Witness ==
    /\ HasReturned("_analyze_response")
    /\ call.response.status_code = 200
    /\ ~ret[1]
    /\ \A i \in 1..Len(Phrases(call.platform)) :
          ~Contains(Phrases(call.platform)[i], call.response.text)

\* C6: for every profile data and platform, _calculate_confidence_score returns
\* a value in [0.3, 1.0], and making an absent field among name, description,
\* followers and location present, on the same platform, never lowers it.
C6_ScoreRangeMonotone ==
    HasReturned("_calculate_confidence_score") =>
        /\ InRange(ret[1], D_0_3, D_1_0)
        /\ \A field \in OptionalFields :
              ~Truthy(call.profile_data, field) =>
                  DLeq(ret[1], _calculate_confidence_score(
                                   Put(call.profile_data, field, "x"), call.platform))

\* the largest sum: every optional field present on a platform with a bonus
C6_Witness ==
    /\ HasReturned("_calculate_confidence_score")
    /\ \A field \in OptionalFields : Truthy(call.profile_data, field)
    /\ call.platform \in DOMAIN platform_bonus
    /\ DLess(D_0_7, ret[1])

\* C7: a probe that ends in a RequestException gives a negative result and raises
\* nothing; the fan-out goes on to every remaining platform of the registry, in
\* order, and what it records for the other platforms is what their own probes
\* returned, as if the failing probe had returned exists false.
C7_FailureIsolated ==
    /\ hist.raised # <<"RequestException">>
    /\ InFanout =>
          /\ fanout.next = Len(hist.fan) + 1
          /\ \A i \in 1..Len(hist.fan) : hist.fan[i].platform = Registry[i]
          /\ hist.failed => \E i \in 1..Len(hist.fan) : ~hist.fan[i].account.exists
          /\ Len(fanout.results) = Len(FanPositives)
          /\ \A i \in 1..Len(FanPositives) : fanout.results[i] = FanPositives[i].account
          /\ (inflight = {} /\ Len(hist.fan) < Len(Registry)) => ENABLED StartProbe

\* a fan-out that went through the whole registry after one of its probes
\* failed, and whose last probe found an account
C7_Witness ==
    /\ InFanout
    /\ hist.failed
    /\ Len(hist.fan) = Len(Registry)
    /\ hist.fan[Len(hist.fan)].account.exists
    /\ Len(fanout.results) = 1

\* C8: a call of search_all_platforms issues one probe per platform of the
\* registry and runs them through a bounded pool: while a platform is left and
\* fewer than 5 probes are in flight, the next probe can start, and never more
\* than 5 are in flight.
C8_BoundedPool ==
    InFanout =>
        /\ Cardinality(inflight) <= 5
        /\ \A i, j \in 1..Len(hist.fan) : hist.fan[i].platform = hist.fan[j].platform => i = j
        /\ \A i \in 1..Len(hist.fan) : hist.fan[i].platform \notin inflight
        /\ (Len(hist.fan) + Cardinality(inflight) < Len(Registry) /\ Cardinality(inflight) < 5)
                => ENABLED StartProbe

\* C9: in one comprehensive_search for base username B, search_all_platforms is
\* called once with B, as the main search, and then with at most 5 other
\* usernames, each an element of generate_username_variants(B), each different
\* from B, none twice; B is not searched again as a variant.
C9_VariantsOnce ==
    DOMAIN hist.searched # {} =>
        LET B == frame.profile.common_username
            searched == hist.searched
            variants == generate_username_variants(B)
        IN  /\ B \in DOMAIN searched
            /\ searched[B] = 1
            /\ pc = "main" => DOMAIN searched = {B}
            /\ Cardinality(DOMAIN searched \ {B}) <= 5
            /\ \A username \in DOMAIN searched \ {B} :
                  /\ username \in variants
                  /\ searched[username] = 1

\* a search has returned in which B itself came up among the five and was skipped
C9_Witness ==
    /\ SearchReturned
    /\ Cardinality(frame.variants) = 5
    /\ frame.profile.common_username \in frame.variants
    /\ Cardinality(DOMAIN hist.searched) = 5

\* C10: a profile whose name or primary username is empty is rejected before any
\* probe: search_all_platforms is never called for it, and the report stays as
\* constructed (no target_profile, no found_accounts, no summary).
C10_IncompleteRejected ==
    (/\ hist.submitted # <<>>
     /\ hist.submitted[1].name = "" \/ hist.submitted[1].common_username = "")
        => /\ DOMAIN hist.searched = {}
           /\ inflight = {}
           /\ report_data = NewReport

\* C11: whenever comprehensive_search has returned on an instance on which no
\* other method was called, a second or later search included, report_data['found_accounts'] has as many entries as
\* the summary's total_accounts_found of that search says.
C11_FoundMatchesTotal ==
    (SearchReturned /\ hist.methods = {"comprehensive_search"}) =>
        Len(report_data.found_accounts)
            = report_data.verification_summary[1].total_accounts_found

====
